---- MODULE Spec2Model ----
(***************************************************************************)
(* Model of generator/cs2-dumper-merger.py: the collector                  *)
(* get_file_contents_from_github, the merger merge_json_files with its     *)
(* helper deep_merge, and main.                                            *)
(*                                                                         *)
(* Python dicts and lists are mutable objects reached through references,  *)
(* so the model keeps a heap of cells and values that are either scalars   *)
(* or references into the heap.  Strings (dict keys, filenames) are        *)
(* sequences of code points, so that sorted() and os.path.splitext act on  *)
(* them as Python does.                                                    *)
(***************************************************************************)
EXTENDS Integers, Sequences, FiniteSets, TLC

VARIABLES heap, pc, args, ret, json_files, todo, merged, remote, stack, reqs, log, output

vars == <<heap, pc, args, ret, json_files, todo, merged, remote, stack, reqs, log, output>>

(***************************************************************************)
(* Bounds.                                                                 *)
(***************************************************************************)
\* Number of nodes below the root of a JSON document drawn as an input.
MaxNodes == 2
\* Scalars are 1..MaxScalar (they stand for strings, numbers, booleans, null).
MaxScalar == 2
\* Longest JSON array drawn as an input.
MaxLen == 1
\* Number of entries of the remote tree, over all its directories.
MaxEntries == 3

(***************************************************************************)
(* Strings.                                                                *)
(***************************************************************************)
KeyA == <<97>>
KeyB == <<98>>
KeySeq == <<KeyA, KeyB>>
Keys == {KeySeq[i] : i \in 1..Len(KeySeq)}

Dot == <<46>>
JsonExt == <<46, 106, 115, 111, 110>>
TxtExt == <<46, 116, 120, 116>>
\* "a-.json" < "a.json" < "b.json", while "a" < "a-" < "b".
NameADash == <<97, 45>> \o JsonExt
NameA == KeyA \o JsonExt
NameB == KeyB \o JsonExt
NameTxt == KeyA \o TxtExt

RECURSIVE StrLess(_, _)
\* x < y on Python strings: by code point, a proper prefix first.
StrLess(x, y) ==
  IF x = <<>> THEN y # <<>>
  ELSE IF y = <<>> THEN FALSE
  ELSE IF x[1] # y[1] THEN x[1] < y[1]
  ELSE StrLess(Tail(x), Tail(y))

\* str.endswith
EndsWith(x, suffix) ==
  /\ Len(x) >= Len(suffix)
  /\ SubSeq(x, Len(x) - Len(suffix) + 1, Len(x)) = suffix

\* os.path.splitext(filename)[0] on a name without directory part: the name up
\* to its last dot, unless only dots come before that dot.
SplitExt(x) ==
  LET dots == {i \in 1..Len(x) : <<x[i]>> = Dot}
      last == CHOOSE i \in dots : \A j \in dots : j <= i
  IN IF dots = {} THEN x
     ELSE IF \E j \in 1..(last - 1) : <<x[j]>> # Dot THEN SubSeq(x, 1, last - 1)
     ELSE x

(***************************************************************************)
(* JSON documents as trees (the text of a file, before json.loads).        *)
(***************************************************************************)
Scalar(s) == [t |-> "s", v |-> s, d |-> {}, l |-> <<>>]
List(l) == [t |-> "list", v |-> 0, d |-> {}, l |-> l]
Dict(d) == [t |-> "dict", v |-> 0, d |-> d, l |-> <<>>]

Scalars == {Scalar(s) : s \in 1..MaxScalar}

Has(d, k) == \E p \in d : p[1] = k
Get(d, k) == (CHOOSE p \in d : p[1] = k)[2]
Put(d, k, x) == {p \in d : p[1] # k} \cup {<<k, x>>}
KeysOf(d) == {p[1] : p \in d}

RECURSIVE TreesOfSize(_), ItemsOfSize(_, _)
\* The documents with exactly n nodes.
TreesOfSize(n) ==
  IF n <= 0 THEN {}
  ELSE (IF n = 1 THEN Scalars ELSE {})
       \cup (IF n - 1 <= MaxLen THEN {List(l) : l \in [1..(n - 1) -> Scalars]} ELSE {})
       \cup {Dict(d) : d \in ItemsOfSize(n - 1, 1)}
\* The entry sets over the keys KeySeq[i..] whose values have n nodes in all.
ItemsOfSize(n, i) ==
  IF i > Len(KeySeq) THEN (IF n = 0 THEN {{}} ELSE {})
  ELSE ItemsOfSize(n, i + 1)
       \cup UNION {{{<<KeySeq[i], x>>} \cup rest :
                       x \in TreesOfSize(s), rest \in ItemsOfSize(n - s, i + 1)} :
                   s \in 1..n}

ObjsUpTo(n) == UNION {{Dict(d) : d \in ItemsOfSize(m, 1)} : m \in 0..n}
Objs == ObjsUpTo(MaxNodes)

(***************************************************************************)
(* The heap.                                                               *)
(***************************************************************************)
SVal(s) == [t |-> "s", v |-> s]
Ref(a) == [t |-> "ref", v |-> a]
DictCell(d) == [t |-> "dict", d |-> d, l |-> <<>>]
ListCell(l) == [t |-> "list", d |-> {}, l |-> l]

IsDict(h, x) == x.t = "ref" /\ h[x.v].t = "dict"
IsList(h, x) == x.t = "ref" /\ h[x.v].t = "list"

RECURSIVE Loads(_, _), LoadSeq(_, _, _, _), LoadItems(_, _, _, _)
\* json.loads: a document becomes fresh objects; [h |-> heap, r |-> value].
Loads(h, x) ==
  IF x.t = "s" THEN [h |-> h, r |-> SVal(x.v)]
  ELSE IF x.t = "list"
    THEN LET e == LoadSeq(h, x.l, 1, <<>>)
         IN [h |-> Append(e.h, ListCell(e.r)), r |-> Ref(Len(e.h) + 1)]
    ELSE LET e == LoadItems(h, x.d, 1, {})
         IN [h |-> Append(e.h, DictCell(e.r)), r |-> Ref(Len(e.h) + 1)]
LoadSeq(h, l, i, acc) ==
  IF i > Len(l) THEN [h |-> h, r |-> acc]
  ELSE LET e == Loads(h, l[i]) IN LoadSeq(e.h, l, i + 1, Append(acc, e.r))
LoadItems(h, d, i, acc) ==
  IF i > Len(KeySeq) THEN [h |-> h, r |-> acc]
  ELSE IF ~Has(d, KeySeq[i]) THEN LoadItems(h, d, i + 1, acc)
  ELSE LET e == Loads(h, Get(d, KeySeq[i]))
       IN LoadItems(e.h, d, i + 1, acc \cup {<<KeySeq[i], e.r>>})

RECURSIVE Snap(_, _)
\* The document a value stands for in heap h (what json.dumps would write).
Snap(h, x) ==
  IF x.t = "s" THEN Scalar(x.v)
  ELSE IF h[x.v].t = "list"
    THEN List([i \in 1..Len(h[x.v].l) |-> Snap(h, h[x.v].l[i])])
    ELSE Dict({<<p[1], Snap(h, p[2])>> : p \in h[x.v].d})

\* result[key] = value on the dict at address a.
SetItem(h, a, k, x) == [h EXCEPT ![a].d = Put(@, k, x)]
ExtendReplace(h, a, b) == [h EXCEPT ![a].l = h[b].l]
\* lst.extend(other) on the list at address a.
Extend(h, a, b) == [h EXCEPT ![a].l = @ \o h[b].l]

(***************************************************************************)
(* deep_merge                                                              *)
(***************************************************************************)
NoCopy(h, a) == [h |-> h, r |-> a]
\* base.copy(): a new object with the same entries (shallow).
ShallowCopy(h, a) == [h |-> Append(h, h[a]), r |-> Len(h) + 1]

NeverRecurse(h, res, key, value) == FALSE
\* The test of the if statement in the loop of deep_merge.
BothDicts(h, res, key, value) ==
  /\ Has(h[res].d, key)
  /\ IsDict(h, Get(h[res].d, key))
  /\ IsDict(h, value)

RECURSIVE DeepMerge(_, _, _), MergeItems(_, _, _, _)
\* The loop with its return statement indented into the body: one key only.
MergeFirstItem(h, res, new, i) ==
  IF h[new].d = {} THEN [h |-> h, r |-> res, err |-> FALSE]
  ELSE LET key == CHOOSE k \in KeysOf(h[new].d) : \A j \in KeysOf(h[new].d) : k[1] <= j[1]
           value == Get(h[new].d, key)
       IN IF h[res].t = "list" THEN [h |-> h, r |-> res, err |-> TRUE]
          ELSE IF BothDicts(h, res, key, value)
            THEN LET sub == DeepMerge(h, Get(h[res].d, key).v, value.v)
                 IN [h |-> SetItem(sub.h, res, key, Ref(sub.r)), r |-> res, err |-> FALSE]
            ELSE [h |-> SetItem(h, res, key, value), r |-> res, err |-> FALSE]
\* deep_merge(base, new) on addresses; [h, r |-> address of result, err].
\* err is the TypeError of result[key] on a list.
DeepMerge(h, base, new) ==
  LET c == ShallowCopy(h, base) IN MergeItems(c.h, c.r, new, 1)
\* The for loop, over the keys of new from the i-th on.  Python walks the keys
\* in insertion order; each key is written once, so the order does not show in
\* the result.  On a list, key in result is false for a string key that is no
\* element and result[key] raises whether the test or the assignment reads it.
MergeItems(h, res, new, i) ==
  IF i > Len(KeySeq) THEN [h |-> h, r |-> res, err |-> FALSE]
  ELSE IF ~Has(h[new].d, KeySeq[i]) THEN MergeItems(h, res, new, i + 1)
  ELSE LET key == KeySeq[i]
           value == Get(h[new].d, key)
       IN IF h[res].t = "list" THEN [h |-> h, r |-> res, err |-> TRUE]
          ELSE IF BothDicts(h, res, key, value)
            THEN LET sub == DeepMerge(h, Get(h[res].d, key).v, value.v)
                 IN MergeItems(SetItem(sub.h, res, key, Ref(sub.r)), res, new, i + 1)
            ELSE MergeItems(SetItem(h, res, key, value), res, new, i + 1)

(***************************************************************************)
(* Specification of one call of deep_merge on two freshly parsed objects.  *)
(***************************************************************************)
Idle ==
  /\ json_files = <<>> /\ todo = <<>> /\ merged = SVal(0)
  /\ remote = <<>> /\ stack = <<>> /\ reqs = <<>> /\ log = <<>> /\ output = <<>>

\* The heap holding the parsed documents of a sequence, and their values.
RECURSIVE LoadAll(_, _, _, _)
LoadAll(h, xs, i, acc) ==
  IF i > Len(xs) THEN [h |-> h, r |-> acc]
  ELSE LET e == Loads(h, xs[i]) IN LoadAll(e.h, xs, i + 1, Append(acc, e.r))

InitDM ==
  /\ \E b \in Objs, n \in Objs :
       /\ args = <<b, n>>
       /\ heap = LoadAll(<<>>, <<b, n>>, 1, <<>>).h
  /\ pc = "call"
  /\ ret = <<>>
  /\ Idle

ArgVals == LoadAll(<<>>, args, 1, <<>>).r
PreHeap == LoadAll(<<>>, args, 1, <<>>).h

CallDeepMerge ==
  /\ pc = "call"
  /\ LET m == DeepMerge(heap, ArgVals[1].v, ArgVals[2].v)
     IN /\ heap' = m.h
        /\ ret' = <<Ref(m.r)>>
  /\ pc' = "done"
  /\ UNCHANGED <<args, json_files, todo, merged, remote, stack, reqs, log, output>>

NextDM == CallDeepMerge

SpecDM == InitDM /\ [][NextDM]_vars

\* deep_merge as a function on documents: parse both, merge, write the result.
MergeTrees(x, y) ==
  LET e == LoadAll(<<>>, <<x, y>>, 1, <<>>)
      m == DeepMerge(e.h, e.r[1].v, e.r[2].v)
  IN Snap(m.h, Ref(m.r))

\* C1: after deep_merge(base, incoming) returns, no object that existed before
\* the call has been written to, and base and incoming are deeply equal to the
\* documents they held before the call.
C1_DeepMergePure ==
  pc = "done" =>
    /\ \A a \in 1..Len(PreHeap) : heap[a] = PreHeap[a]
    /\ Snap(heap, ArgVals[1]) = args[1]
    /\ Snap(heap, ArgVals[2]) = args[2]

\* A call that recursed: base and incoming hold objects under a shared key.
C1_Witness ==
  /\ pc = "done"
  /\ \E k \in Keys :
       /\ Has(args[1].d, k) /\ Get(args[1].d, k).t = "dict"
       /\ Has(args[2].d, k) /\ Get(args[2].d, k).t = "dict"
       /\ Get(args[2].d, k).d # {}
       /\ Get(args[1].d, k).d # {}

\* C3: the result of deep_merge(base, incoming) has the keys of base and of
\* incoming and no others; a key of base alone keeps base's value, a key holding
\* objects in both holds their deep merge, and every other key of incoming holds
\* incoming's value as it is (arrays are not concatenated).
C3_MergeByKey ==
  pc = "done" =>
    LET r == Snap(heap, ret[1])
        b == args[1]
        n == args[2]
    IN /\ r.t = "dict"
       /\ KeysOf(r.d) = KeysOf(b.d) \cup KeysOf(n.d)
       /\ \A k \in KeysOf(r.d) :
            IF ~Has(n.d, k) THEN Get(r.d, k) = Get(b.d, k)
            ELSE IF Has(b.d, k) /\ Get(b.d, k).t = "dict" /\ Get(n.d, k).t = "dict"
              THEN Get(r.d, k) = MergeTrees(Get(b.d, k), Get(n.d, k))
              ELSE Get(r.d, k) = Get(n.d, k)

\* A call where a shared key holds objects with different keys in base and
\* incoming, so that the merged object differs from both.
C3_Witness ==
  /\ pc = "done"
  /\ \E k \in Keys :
       /\ Has(args[1].d, k) /\ Get(args[1].d, k).t = "dict"
       /\ Has(args[2].d, k) /\ Get(args[2].d, k).t = "dict"
       /\ Get(Snap(heap, ret[1]).d, k) # Get(args[1].d, k)
       /\ Get(Snap(heap, ret[1]).d, k) # Get(args[2].d, k)

(***************************************************************************)
(* Specification of deep_merge applied to three objects in both groupings. *)
(***************************************************************************)
\* Objects of no or one entry holding a scalar, an empty array or an empty object.
FlatObjs ==
  {Dict({})} \cup {Dict({<<k, x>>}) : k \in Keys, x \in Scalars \cup {List(<<>>), Dict({})}}

InitAssoc ==
  /\ \E a \in Objs, b \in FlatObjs, c \in ObjsUpTo(MaxNodes - 1) :
       /\ args = <<a, b, c>>
       /\ heap = LoadAll(<<>>, <<a, b, c>>, 1, <<>>).h
  /\ pc = "left"
  /\ ret = <<>>
  /\ Idle

\* deep_merge(deep_merge(A, B), C)
MergeLeft ==
  /\ pc = "left"
  /\ LET ab == DeepMerge(heap, ArgVals[1].v, ArgVals[2].v)
         m == DeepMerge(ab.h, ab.r, ArgVals[3].v)
     IN /\ heap' = m.h
        /\ ret' = <<Ref(m.r)>>
  /\ pc' = "right"
  /\ UNCHANGED <<args, json_files, todo, merged, remote, stack, reqs, log, output>>

\* deep_merge(A, deep_merge(B, C))
MergeRight ==
  /\ pc = "right"
  /\ LET bc == DeepMerge(heap, ArgVals[2].v, ArgVals[3].v)
         m == DeepMerge(bc.h, ArgVals[1].v, bc.r)
     IN /\ heap' = m.h
        /\ ret' = Append(ret, Ref(m.r))
  /\ pc' = "both"
  /\ UNCHANGED <<args, json_files, todo, merged, remote, stack, reqs, log, output>>

NextAssoc == MergeLeft \/ MergeRight

SpecAssoc == InitAssoc /\ [][NextAssoc]_vars

RECURSIVE Sandwiched(_, _, _)
\* Some key path holds an object in a, a non-object in b and an object in c,
\* every proper prefix of the path holding objects in all three.
Sandwiched(a, b, c) ==
  \E k \in KeysOf(a.d) \cap KeysOf(b.d) \cap KeysOf(c.d) :
    /\ Get(a.d, k).t = "dict"
    /\ Get(c.d, k).t = "dict"
    /\ \/ Get(b.d, k).t # "dict"
       \/ Sandwiched(Get(a.d, k), Get(b.d, k), Get(c.d, k))

\* C2 as stated: deep_merge(deep_merge(A, B), C) equals
\* deep_merge(A, deep_merge(B, C)) for all objects A, B and C.
C2_Associative ==
  pc = "both" => Snap(heap, ret[1]) = Snap(heap, ret[2])

\* C2 amended: the two groupings agree for all objects A, B and C in which no
\* key path holds an object in A, a non-object in B and an object in C.
C2_AssociativeUnlessSandwiched ==
  (pc = "both" /\ ~Sandwiched(args[1], args[2], args[3])) =>
    Snap(heap, ret[1]) = Snap(heap, ret[2])

\* Both groupings computed on three objects of mixed kinds under a shared key
\* (a scalar in A, objects in B and C), where the claim's condition holds.
C2_Witness ==
  /\ pc = "both"
  /\ ~Sandwiched(args[1], args[2], args[3])
  /\ \E k \in Keys :
       /\ Has(args[1].d, k) /\ Get(args[1].d, k).t # "dict"
       /\ Has(args[2].d, k) /\ Get(args[2].d, k).t = "dict"
       /\ Has(args[3].d, k) /\ Get(args[3].d, k).t = "dict"

(***************************************************************************)
(* merge_json_files                                                        *)
(***************************************************************************)
\* A FileSet is a sequence of [name, val] in insertion order (a Python dict).
File(name, val) == [name |-> name, val |-> val]

\* The order of sorted() on (filename, content) pairs of a dict: filenames are
\* distinct, so the contents are never compared.
FileLess(f, g) == StrLess(f.name, g.name)

RECURSIVE InsertSorted(_, _)
InsertSorted(f, fs) ==
  IF fs = <<>> THEN <<f>>
  ELSE IF FileLess(f, Head(fs)) THEN <<f>> \o fs
  ELSE <<Head(fs)>> \o InsertSorted(f, Tail(fs))

RECURSIVE SortFrom(_, _, _)
SortFrom(fs, i, acc) ==
  IF i > Len(fs) THEN acc ELSE SortFrom(fs, i + 1, InsertSorted(fs[i], acc))

Unsorted(fs) == fs
\* sorted(json_files.items())
Sorted(fs) == SortFrom(fs, 1, <<>>)

\* not merged
IsEmpty(h, m) == h[m.v].d = {} /\ h[m.v].l = <<>>

\* The branch for a dict content; [h, m |-> accumulator, err].
MergeObject(h, m, content) ==
  LET r == DeepMerge(h, m.v, content.v)
  IN [h |-> r.h, m |-> IF r.err THEN m ELSE Ref(r.r), err |-> r.err]

\* The branch for a list content.
MergeArray(h, m, name, content) ==
  IF IsEmpty(h, m) THEN [h |-> h, m |-> content, err |-> FALSE]
  ELSE IF IsList(h, m) THEN [h |-> Extend(h, m.v, content.v), m |-> m, err |-> FALSE]
  ELSE LET key == SplitExt(name)
       IN IF ~Has(h[m.v].d, key)
            THEN [h |-> SetItem(h, m.v, key, content), m |-> m, err |-> FALSE]
          ELSE IF IsList(h, Get(h[m.v].d, key))
            THEN [h |-> Extend(h, Get(h[m.v].d, key).v, content.v), m |-> m, err |-> FALSE]
          ELSE [h |-> SetItem(h, m.v, key, content), m |-> m, err |-> FALSE]

\* The branch for any other content; err is the TypeError of merged[key] = ...
\* on a list.
MergePrimitive(h, m, name, content) ==
  IF IsList(h, m) THEN [h |-> h, m |-> m, err |-> TRUE]
  ELSE [h |-> SetItem(h, m.v, SplitExt(name), content), m |-> m, err |-> FALSE]

\* One iteration of the loop.
MergeFile(h, m, f) ==
  IF IsDict(h, f.val) THEN MergeObject(h, m, f.val)
  ELSE IF IsList(h, f.val) THEN MergeArray(h, m, f.name, f.val)
  ELSE MergePrimitive(h, m, f.name, f.val)

RECURSIVE MergeLoop(_, _, _, _)
MergeLoop(h, m, fs, i) ==
  IF i > Len(fs) THEN [h |-> h, m |-> m, err |-> FALSE]
  ELSE LET r == MergeFile(h, m, fs[i])
       IN IF r.err THEN r ELSE MergeLoop(r.h, r.m, fs, i + 1)

\* merge_json_files(json_files) as one call.
MergeJsonFiles(h, fs) ==
  MergeLoop(Append(h, DictCell({})), Ref(Len(h) + 1), Sorted(fs), 1)

(***************************************************************************)
(* Specification of one call of merge_json_files, an iteration at a time.  *)
(***************************************************************************)
Arrays == UNION {{List(l) : l \in [1..n -> Scalars]} : n \in 0..MaxLen}
\* Objects of no or one entry holding a scalar, an array or an empty object.
FileObjs ==
  {Dict({})} \cup {Dict({<<k, x>>}) : k \in Keys, x \in Scalars \cup Arrays \cup {Dict({})}}
FileDocs == Scalars \cup Arrays \cup FileObjs

Absent == Scalar(0)
\* The order in which the collector found the files: not the sorted one.
Discovery == <<NameB, NameA, NameADash>>

RECURSIVE Present(_, _)
\* The files of a choice of documents, in discovery order.
Present(c, i) ==
  IF i > Len(Discovery) THEN <<>>
  ELSE (IF c[i] = Absent THEN <<>> ELSE <<[name |-> Discovery[i], doc |-> c[i]]>>)
       \o Present(c, i + 1)

RECURSIVE LoadFiles(_, _, _, _)
\* Every document parsed in turn; [h, r |-> FileSet].
LoadFiles(h, ds, i, acc) ==
  IF i > Len(ds) THEN [h |-> h, r |-> acc]
  ELSE LET e == Loads(h, ds[i].doc)
       IN LoadFiles(e.h, ds, i + 1, Append(acc, File(ds[i].name, e.r)))

InitMerge ==
  /\ \E c \in [1..Len(Discovery) -> FileDocs \cup {Absent}] :
       /\ args = Present(c, 1)
       /\ heap = LoadFiles(<<>>, Present(c, 1), 1, <<>>).h
       /\ json_files = LoadFiles(<<>>, Present(c, 1), 1, <<>>).r
  /\ pc = "start"
  /\ ret = <<>>
  /\ todo = <<>> /\ merged = SVal(0)
  /\ remote = <<>> /\ stack = <<>> /\ reqs = <<>> /\ log = <<>> /\ output = <<>>

\* merged = {} and the evaluation of sorted(json_files.items()).
StartMerge ==
  /\ pc = "start"
  /\ heap' = Append(heap, DictCell({}))
  /\ merged' = Ref(Len(heap) + 1)
  /\ todo' = Sorted(json_files)
  /\ pc' = "loop"
  /\ UNCHANGED <<args, ret, json_files, remote, stack, reqs, log, output>>

Step(r) ==
  /\ heap' = r.h
  /\ merged' = r.m
  /\ todo' = Tail(todo)
  /\ pc' = IF r.err THEN "raised" ELSE "loop"
  /\ UNCHANGED <<args, ret, json_files, remote, stack, reqs, log, output>>

MergeObjectFile ==
  /\ pc = "loop" /\ todo # <<>>
  /\ IsDict(heap, Head(todo).val)
  /\ Step(MergeFile(heap, merged, Head(todo)))

MergeArrayFile ==
  /\ pc = "loop" /\ todo # <<>>
  /\ IsList(heap, Head(todo).val)
  /\ Step(MergeFile(heap, merged, Head(todo)))

MergePrimitiveFile ==
  /\ pc = "loop" /\ todo # <<>>
  /\ Head(todo).val.t = "s"
  /\ Step(MergeFile(heap, merged, Head(todo)))

ReturnMerged ==
  /\ pc = "loop" /\ todo = <<>>
  /\ ret' = <<merged>>
  /\ pc' = "done"
  /\ UNCHANGED <<heap, args, json_files, todo, merged, remote, stack, reqs, log, output>>

NextMerge ==
  \/ StartMerge
  \/ MergeObjectFile
  \/ MergeArrayFile
  \/ MergePrimitiveFile
  \/ ReturnMerged

SpecMerge == InitMerge /\ [][NextMerge]_vars

\* The file the loop handled last.
LastFile == Sorted(json_files)[Len(json_files) - Len(todo)]
Handled == pc \in {"loop", "raised"} /\ Len(todo) < Len(json_files)
\* A filename ending in .json without that ending.
Stem(name) == SubSeq(name, 1, Len(name) - Len(JsonExt))

Perms(fs) ==
  {[i \in 1..Len(fs) |-> fs[q[i]]] :
     q \in {f \in [1..Len(fs) -> 1..Len(fs)] : \A i, j \in 1..Len(fs) : f[i] = f[j] => i = j}}

\* What merge_json_files gives on freshly parsed files: the merged document,
\* or err for a TypeError.
Outcome(ds) ==
  LET e == LoadFiles(<<>>, ds, 1, <<>>)
      r == MergeJsonFiles(e.h, e.r)
  IN [err |-> r.err, doc |-> IF r.err THEN Absent ELSE Snap(r.h, r.m)]

\* C4: merge_json_files handles the files in ascending order of filename
\* whatever the insertion order of the FileSet: every insertion order of the same
\* files gives the outcome of this run, and among object files the non-object
\* value of the last filename holding a key is the value of that key in the result.
C4_SortedOrder ==
  pc \in {"done", "raised"} =>
    /\ \A q \in Perms(args) :
         Outcome(q) = [err |-> pc = "raised",
                       doc |-> IF pc = "raised" THEN Absent ELSE Snap(heap, ret[1])]
    /\ (pc = "done" /\ \A i \in 1..Len(args) : args[i].doc.t = "dict") =>
         \A k \in Keys : \A i \in 1..Len(args) :
           ( /\ Has(args[i].doc.d, k)
             /\ Get(args[i].doc.d, k).t # "dict"
             /\ \A j \in 1..Len(args) :
                  (j # i /\ Has(args[j].doc.d, k)) => StrLess(args[j].name, args[i].name) )
           => Get(Snap(heap, ret[1]).d, k) = Get(args[i].doc.d, k)

\* A finished run on object files found in descending order of filename, two
\* of which hold different non-object values under the same key.
C4_Witness ==
  /\ pc = "done"
  /\ \E i, j \in 1..Len(args) : \E k \in Keys :
       /\ i < j
       /\ StrLess(args[j].name, args[i].name)
       /\ args[i].doc.t = "dict" /\ Has(args[i].doc.d, k)
       /\ args[j].doc.t = "dict" /\ Has(args[j].doc.d, k)
       /\ Get(args[i].doc.d, k).t # "dict" /\ Get(args[j].doc.d, k).t # "dict"
       /\ Get(args[i].doc.d, k) # Get(args[j].doc.d, k)
       /\ Get(Snap(heap, ret[1]).d, k) = Get(args[i].doc.d, k)

\* The accumulator after an array file, by the rule of the claim.
ArrayRule(acc, key, content) ==
  IF acc.d = {} /\ acc.l = <<>> THEN content
  ELSE IF acc.t = "list" THEN List(acc.l \o content.l)
  ELSE IF Has(acc.d, key) /\ Get(acc.d, key).t = "list"
    THEN Dict(Put(acc.d, key, List(Get(acc.d, key).l \o content.l)))
    ELSE Dict(Put(acc.d, key, content))

\* C5: an array file turns an empty accumulator into that array, is appended to
\* an array accumulator, and otherwise is stored under the filename without its
\* extension, extending an array already under that key and replacing anything
\* else; the other keys of the accumulator keep their values.
C5_ArrayRule ==
  [][MergeArrayFile =>
       Snap(heap', merged') =
         ArrayRule(Snap(heap, merged), Stem(Head(todo).name), Snap(heap, Head(todo).val))]_vars

\* An array file has extended a non-empty array under its key in an object
\* accumulator.
C5_Witness ==
  /\ Handled /\ pc = "loop"
  /\ IsList(heap, LastFile.val)
  /\ IsDict(heap, merged)
  /\ Has(heap[merged.v].d, Stem(LastFile.name))
  /\ IsList(heap, Get(heap[merged.v].d, Stem(LastFile.name)))
  /\ Len(heap[LastFile.val.v].l) > 0
  /\ Len(heap[Get(heap[merged.v].d, Stem(LastFile.name)).v].l) > Len(heap[LastFile.val.v].l)

\* C6: an object file handled while the accumulator is an array does not raise.
C6_ObjectOnArrayCompletes ==
  ~(Handled /\ pc = "raised" /\ IsDict(heap, LastFile.val) /\ IsList(heap, merged))

\* C7: after merge_json_files returns, every filename of the FileSet maps to a
\* value deeply equal to the document it was parsed from.
C7_FileSetUnchanged ==
  pc = "done" =>
    \A i \in 1..Len(json_files) : Snap(heap, json_files[i].val) = args[i].doc

(***************************************************************************)
(* The remote tree.                                                        *)
(***************************************************************************)
\* A listing request answers with a status (ok: 200) and the entries.
Listing(ok, items) == [ok |-> ok, items |-> items]
NoListing == Listing(TRUE, <<>>)
\* An entry: its type, the base name of its path, whether it carries a
\* download_url, whether the download answers 200, whether the text parses,
\* the document the text stands for, and for a directory its own listing.
Entry(type, name, url, status, parses, doc, sub) ==
  [type |-> type, name |-> name, url |-> url, status |-> status,
   parses |-> parses, doc |-> doc, sub |-> sub]

GoodFile(name, doc) == Entry("file", name, TRUE, TRUE, TRUE, doc, NoListing)
DirEntry(sub) == Entry("dir", <<>>, TRUE, TRUE, TRUE, Absent, sub)

\* The documents of the remote files: scalars and the empty array.
RemoteDocs == Scalars \cup {List(<<>>)}

LeafEntries ==
  {GoodFile(n, x) : n \in {NameA, NameB}, x \in RemoteDocs}
  \cup UNION {{Entry("file", n, FALSE, TRUE, TRUE, Absent, NoListing),
               Entry("file", n, TRUE, FALSE, TRUE, Absent, NoListing),
               Entry("file", n, TRUE, TRUE, FALSE, Absent, NoListing)} : n \in {NameA, NameB}}
  \cup {Entry("file", NameTxt, TRUE, TRUE, TRUE, Absent, NoListing),
        Entry("symlink", NameB, TRUE, TRUE, TRUE, Absent, NoListing)}

\* A directory holds no two entries of the same name.
NewName(e, rest) == \A i \in 1..Len(rest) : rest[i].type = "dir" \/ rest[i].name # e.name

RECURSIVE EntriesOfSize(_), ListingsOfSize(_)
\* The sequences of entries that hold n entries, nested ones included.
EntriesOfSize(n) ==
  IF n = 0 THEN {<<>>}
  ELSE UNION {{<<e>> \o rest : rest \in {r \in EntriesOfSize(n - 1) : NewName(e, r)}} :
                e \in LeafEntries}
       \cup UNION {{<<DirEntry(d)>> \o rest :
                       d \in ListingsOfSize(k), rest \in EntriesOfSize(n - 1 - k)} :
                   k \in 0..(n - 1)}
ListingsOfSize(n) ==
  {Listing(TRUE, es) : es \in EntriesOfSize(n)}
  \cup (IF n = 0 THEN {Listing(FALSE, <<>>)} ELSE {})

Remotes == UNION {ListingsOfSize(n) : n \in 0..MaxEntries}

(***************************************************************************)
(* get_file_contents_from_github and main                                  *)
(***************************************************************************)
Event(ev, path) == [ev |-> ev, path |-> path]
Frame(path, dir, i, files) == [path |-> path, dir |-> dir, i |-> i, files |-> files]

KeepFirst(fs, name, val) ==
  IF \E i \in 1..Len(fs) : fs[i].name = name THEN fs ELSE Append(fs, File(name, val))
\* d[name] = val on a dict in insertion order.
DictSet(fs, name, val) ==
  IF \E i \in 1..Len(fs) : fs[i].name = name
    THEN [i \in 1..Len(fs) |-> IF fs[i].name = name THEN File(name, val) ELSE fs[i]]
    ELSE Append(fs, File(name, val))

RECURSIVE DictUpdate(_, _)
\* d.update(other)
DictUpdate(fs, other) ==
  IF other = <<>> THEN fs
  ELSE DictUpdate(DictSet(fs, Head(other).name, Head(other).val), Tail(other))

\* not json_files
NoFiles(fs) == fs = <<>>

IgnoreStatus(dir) == FALSE
\* response.status_code != 200
ListingFailed(dir) == ~dir.ok

Top == stack[Len(stack)]
Item == Top.dir.items[Top.i]
Visiting == pc = "collect" /\ Top.i >= 1 /\ Top.i <= Len(Top.dir.items)
SetTop(f) == [stack EXCEPT ![Len(stack)] = f]

InitMain ==
  /\ remote \in Remotes
  /\ pc = "main"
  /\ heap = <<>> /\ args = <<>> /\ ret = <<>>
  /\ json_files = <<>> /\ todo = <<>> /\ merged = SVal(0)
  /\ stack = <<>> /\ reqs = <<>> /\ log = <<>> /\ output = <<>>

\* main up to the call of the collector on OUTPUT_PATH.
MainFetch ==
  /\ pc = "main"
  /\ stack' = <<Frame(<<>>, remote, 0, <<>>)>>
  /\ pc' = "collect"
  /\ UNCHANGED <<heap, args, ret, json_files, todo, merged, remote, reqs, log, output>>

\* The listing request of a call and the test of its status.  A response that
\* is a single entry is wrapped into a list of one; a listing of one entry
\* stands for it.  requests.get is taken to answer: an exception of the
\* transport is not part of the model.
ListDir ==
  /\ pc = "collect" /\ Top.i = 0
  /\ reqs' = Append(reqs, [path |-> Top.path, ok |-> Top.dir.ok])
  /\ log' = Append(log, Event("fetching", Top.path))
  /\ IF ListingFailed(Top.dir)
       THEN stack' = <<>> /\ pc' = "except"
       ELSE stack' = SetTop([Top EXCEPT !.i = 1]) /\ pc' = "collect"
  /\ UNCHANGED <<heap, args, ret, json_files, todo, merged, remote, output>>

\* The body of the loop for a file entry whose path ends in .json.
VisitFile ==
  /\ Visiting
  /\ Item.type = "file" /\ EndsWith(Item.name, JsonExt)
  /\ LET path == Top.path \o <<Top.i>>
         down == Event("downloading", path)
         e == Loads(heap, Item.doc)
     IN IF ~Item.url
          THEN /\ log' = Append(log, down)
               /\ stack' = SetTop([Top EXCEPT !.i = @ + 1])
               /\ UNCHANGED heap
        ELSE IF ~Item.status
          THEN /\ log' = log \o <<down, Event("download_failed", path)>>
               /\ stack' = SetTop([Top EXCEPT !.i = @ + 1])
               /\ UNCHANGED heap
        ELSE IF ~Item.parses
          THEN /\ log' = log \o <<down, Event("parse_failed", path)>>
               /\ stack' = SetTop([Top EXCEPT !.i = @ + 1])
               /\ UNCHANGED heap
        ELSE /\ log' = log \o <<down, Event("loaded", path)>>
             /\ heap' = e.h
             /\ stack' = SetTop([Top EXCEPT !.i = @ + 1,
                                            !.files = DictSet(@, Item.name, e.r)])
  /\ UNCHANGED <<pc, args, ret, json_files, todo, merged, remote, reqs, output>>

\* The body of the loop for a directory entry: the recursive call.
VisitDir ==
  /\ Visiting
  /\ Item.type = "dir"
  /\ log' = Append(log, Event("exploring", Top.path \o <<Top.i>>))
  /\ stack' = Append(stack, Frame(Top.path \o <<Top.i>>, Item.sub, 0, <<>>))
  /\ UNCHANGED <<heap, pc, args, ret, json_files, todo, merged, remote, reqs, output>>

\* The body of the loop for any other entry.
SkipItem ==
  /\ Visiting
  /\ Item.type # "dir"
  /\ ~(Item.type = "file" /\ EndsWith(Item.name, JsonExt))
  /\ stack' = SetTop([Top EXCEPT !.i = @ + 1])
  /\ UNCHANGED <<heap, pc, args, ret, json_files, todo, merged, remote, reqs, log, output>>

\* return json_files, into the update of the calling frame or into main.
ReturnDir ==
  /\ pc = "collect" /\ Top.i > Len(Top.dir.items)
  /\ IF Len(stack) > 1
       THEN /\ stack' = [i \in 1..(Len(stack) - 1) |->
                           IF i = Len(stack) - 1
                             THEN [stack[i] EXCEPT !.i = @ + 1,
                                                   !.files = DictUpdate(@, Top.files)]
                             ELSE stack[i]]
            /\ UNCHANGED <<pc, json_files>>
       ELSE /\ stack' = <<>>
            /\ json_files' = Top.files
            /\ pc' = "collected"
  /\ UNCHANGED <<heap, args, ret, todo, merged, remote, reqs, log, output>>

\* if not json_files: print, return
MainNoFiles ==
  /\ pc = "collected" /\ NoFiles(json_files)
  /\ log' = Append(log, Event("no_files", <<>>))
  /\ pc' = "returned"
  /\ UNCHANGED <<heap, args, ret, json_files, todo, merged, remote, stack, reqs, output>>

\* merged_data = merge_json_files(json_files)
MainMerge ==
  /\ pc = "collected" /\ ~NoFiles(json_files)
  /\ log' = Append(log, Event("merging", <<>>))
  /\ LET r == MergeJsonFiles(heap, json_files)
     IN /\ heap' = r.h
        /\ merged' = IF r.err THEN merged ELSE r.m
        /\ pc' = IF r.err THEN "except" ELSE "write"
  /\ UNCHANGED <<args, ret, json_files, todo, remote, stack, reqs, output>>

\* open(OUTPUT_FILE, 'w') and json.dump
MainWrite ==
  /\ pc = "write"
  /\ output' = Append(output, Snap(heap, merged))
  /\ log' = log \o <<Event("writing", <<>>), Event("success", <<>>)>>
  /\ pc' = "returned"
  /\ UNCHANGED <<heap, args, ret, json_files, todo, merged, remote, stack, reqs>>

\* except Exception: print the error and the traceback
MainExcept ==
  /\ pc = "except"
  /\ log' = Append(log, Event("error", <<>>))
  /\ pc' = "returned"
  /\ UNCHANGED <<heap, args, ret, json_files, todo, merged, remote, stack, reqs, output>>

NextMain ==
  \/ MainFetch
  \/ ListDir
  \/ VisitFile
  \/ VisitDir
  \/ SkipItem
  \/ ReturnDir
  \/ MainNoFiles
  \/ MainMerge
  \/ MainWrite
  \/ MainExcept

SpecMain == InitMain /\ [][NextMain]_vars

RECURSIVE JsonEntries(_, _, _)
\* The file entries named *.json of a tree whose listings all succeed, in
\* depth-first listing order, each with its path.
JsonEntries(dir, path, i) ==
  IF i > Len(dir.items) THEN <<>>
  ELSE LET e == dir.items[i]
       IN (IF e.type = "dir" THEN JsonEntries(e.sub, path \o <<i>>, 1)
           ELSE IF e.type = "file" /\ EndsWith(e.name, JsonExt)
             THEN <<[path |-> path \o <<i>>, e |-> e]>>
           ELSE <<>>)
          \o JsonEntries(dir, path, i + 1)

Parsed(e) == e.url /\ e.status /\ e.parses
Logged(ev, path) == \E i \in 1..Len(log) : log[i] = Event(ev, path)
FileSetMap == {<<json_files[i].name, Snap(heap, json_files[i].val)>> : i \in 1..Len(json_files)}

\* C8: the output file is written at most once; it is written, and the merge is
\* called, only if every listing request made returned success and the FileSet
\* is not empty; a run with a failed listing or an empty FileSet ends with no
\* output file and no merge.
C8_OutputOnlyAfterFullCollection ==
  /\ Len(output) <= 1
  /\ (output # <<>> \/ Logged("merging", <<>>)) =>
       /\ \A i \in 1..Len(reqs) : reqs[i].ok
       /\ json_files # <<>>
  /\ (pc = "returned" /\ (json_files = <<>> \/ \E i \in 1..Len(reqs) : ~reqs[i].ok)) =>
       output = <<>> /\ ~Logged("merging", <<>>)

\* A run that ended on a failed listing below the root, after a file had been
\* loaded, with nothing written.
C8_Witness ==
  /\ pc = "returned"
  /\ \E i \in 1..Len(reqs) : ~reqs[i].ok /\ reqs[i].path # <<>>
  /\ \E i \in 1..Len(log) : log[i].ev = "loaded"
  /\ output = <<>>

\* C9: when the collector returns, the FileSet holds only files whose content
\* parsed, and every .json file entry of the tree is either loaded or has a
\* diagnostic notification (download failed, parse failed) emitted for it.
C9_DroppedWithNotification ==
  pc = "collected" =>
    LET es == JsonEntries(remote, <<>>, 1)
    IN /\ \A p \in FileSetMap :
            \E i \in 1..Len(es) : Parsed(es[i].e) /\ p = <<es[i].e.name, es[i].e.doc>>
       /\ \A i \in 1..Len(es) :
            \/ Logged("loaded", es[i].path)
            \/ Logged("download_failed", es[i].path)
            \/ Logged("parse_failed", es[i].path)

\* C10: the FileSet the collector returns maps each base filename to the
\* document of the last .json file of that name, in depth-first listing order,
\* that parsed.
C10_LastParsedWins ==
  pc = "collected" =>
    LET es == JsonEntries(remote, <<>>, 1)
        good == {i \in 1..Len(es) : Parsed(es[i].e)}
        last == {i \in good : \A j \in good : es[j].e.name = es[i].e.name => j <= i}
    IN /\ FileSetMap = {<<es[i].e.name, es[i].e.doc>> : i \in last}
       /\ Len(json_files) = Cardinality(last)

\* The collector returned from a tree where a file listed after a subdirectory
\* has the name of a file parsed inside that subdirectory, and another document.
C10_Witness ==
  /\ pc = "collected"
  /\ LET es == JsonEntries(remote, <<>>, 1)
     IN \E i, j \in 1..Len(es) :
          /\ i < j
          /\ Parsed(es[i].e) /\ Parsed(es[j].e)
          /\ es[i].e.name = es[j].e.name
          /\ es[i].e.doc # es[j].e.doc
          /\ Len(es[i].path) > Len(es[j].path)

====
